---- MODULE Spec2Model ----
(***************************************************************************)
(* Model of awsweeper's resource filter (package resource).                *)
(*                                                                         *)
(* Two builds of the filter live in the repository:                        *)
(*   variant = "map"   src/resource/filter.go: Config maps a resource type *)
(*                     to one configEntry {Ids, Tags}; NewFilter reads,    *)
(*                     parses and validates.                               *)
(*   variant = "list"  src/Makefile (lines 41..205): Config maps a         *)
(*                     resource type to a list of ResourceTypeFilter       *)
(*                     {ID, Tags, Created}; NewFilter reads and parses.    *)
(* The registry of supported resource types is src/unnamed/part_000.       *)
(*                                                                         *)
(* Strings that are matched by regular expressions are sequences of        *)
(* one-character strings; map keys and type names are plain strings.       *)
(* A Go pointer or a nilable map is a sequence of length at most one:      *)
(* <<>> is nil, <<x>> points to x.                                         *)
(***************************************************************************)
EXTENDS Integers, Sequences, FiniteSets, TLC

VARIABLES
    variant,    \* which build of the filter runs: "map" or "list"
    file,       \* the yaml file handed to NewFilter
    pc,         \* position of the process: read, parse, validate, ready, returned, fatal
    cfg,        \* Filter.cfg / Filter.Cfg
    steps,      \* the steps of NewFilter entered so far, in order
    last        \* the last call made on the filter or the registry, with its result

vars == <<variant, file, pc, cfg, steps, last>>

----------------------------------------------------------------------------
(* Bounds *)

\* longest Ids list of a configEntry
MaxIds == 2

\* longest list of ResourceTypeFilter of one resource type
MaxEntries == 2

\* resolution of the modelled clock: a time.Time is a number of ticks since
\* the epoch, and this many ticks make one second
TicksPerSecond == 2

----------------------------------------------------------------------------
(* Generic helpers *)

Nil == <<>>

Some(x) == <<x>>

EmptyMap == [k \in {} |-> <<>>]

AllMaps(keys, vals) == UNION {[S -> vals] : S \in SUBSET keys}

SeqsUpTo(S, n) == UNION {[1..k -> S] : k \in 0..n}

\* the orders in which a Go range statement may visit the keys S of a map
Orders(S) ==
    {s \in [1..Cardinality(S) -> S] : \A i, j \in 1..Cardinality(S) : i # j => s[i] # s[j]}

MinOf(S) == CHOOSE x \in S : \A y \in S : x <= y

----------------------------------------------------------------------------
(* Strings *)

\* "foo-lala"
FooLala == <<"f", "o", "o", "-", "l", "a", "l", "a">>

\* "lala-foo"
LalaFoo == <<"l", "a", "l", "a", "-", "f", "o", "o">>

\* "some-id"
SomeId == <<"s", "o", "m", "e", "-", "i", "d">>

\* "bar"
Bar == <<"b", "a", "r">>

\* "baz"
Baz == <<"b", "a", "z">>

\* the pattern "^foo.*"
PatFooPrefix == <<"^", "f", "o", "o", ".", "*">>

\* the pattern "foo$"
PatFooSuffix == <<"f", "o", "o", "$">>

\* the pattern "bar"
PatBar == <<"b", "a", "r">>

\* the pattern "(", which does not compile: missing closing )
PatBad == <<"(">>

----------------------------------------------------------------------------
(* regexp.MatchString for patterns made of literals, ^, $, . and x*        *)

RECURSIVE matchhere(_, _)
RECURSIVE matchstar(_, _, _)

\* does re match at the beginning of text
matchhere(re, text) ==
    IF re = <<>> THEN TRUE
    ELSE IF Len(re) >= 2 /\ re[2] = "*"
         THEN matchstar(re[1], SubSeq(re, 3, Len(re)), text)
    ELSE IF re = <<"$">> THEN text = <<>>
    ELSE IF text # <<>> /\ (re[1] = "." \/ re[1] = text[1])
         THEN matchhere(Tail(re), Tail(text))
    ELSE FALSE

\* does c*re match at the beginning of text
matchstar(c, re, text) ==
    \/ matchhere(re, text)
    \/ /\ text # <<>>
       /\ (c = "." \/ c = text[1])
       /\ matchstar(c, re, Tail(text))

\* unanchored search, as regexp.Regexp.MatchString does
match(re, text) ==
    IF re # <<>> /\ re[1] = "^"
    THEN matchhere(Tail(re), text)
    ELSE \E i \in 1..(Len(text) + 1) : matchhere(re, SubSeq(text, i, Len(text)))

Count(re, c) == Cardinality({i \in 1..Len(re) : re[i] = c})

\* regexp.Compile fails: unbalanced parenthesis or a repetition with no argument
CompileError(re) ==
    \/ Count(re, "(") # Count(re, ")")
    \/ (re # <<>> /\ re[1] = "*")

\* regexp.MatchString(pattern, s): (false, err) when the pattern does not compile
MatchString(pattern, s) ==
    IF CompileError(pattern)
    THEN [ok |-> FALSE, err |-> TRUE]
    ELSE [ok |-> match(pattern, s), err |-> FALSE]

----------------------------------------------------------------------------
(* The registry of supported resource types                                *)

Desc(t, out, del, describe, sel) ==
    [TerraformType |-> t, DescribeOutputName |-> out, DeleteID |-> del,
     Describe |-> describe, Select |-> sel]

Supported ==
    << Desc("aws_autoscaling_group", <<"AutoScalingGroups">>, "AutoScalingGroupName",
            "ASconn.DescribeAutoScalingGroups", "filterGeneric"),
       Desc("aws_launch_configuration", <<"LaunchConfigurations">>, "LaunchConfigurationName",
            "ASconn.DescribeLaunchConfigurations", "filterGeneric"),
       Desc("aws_instance", <<"Reservations", "Instances">>, "InstanceId",
            "EC2conn.DescribeInstances", "filterGeneric"),
       Desc("aws_key_pair", <<"KeyPairs">>, "KeyName",
            "EC2conn.DescribeKeyPairs", "filterGeneric"),
       Desc("aws_elb", <<"LoadBalancerDescriptions">>, "LoadBalancerName",
            "ELBconn.DescribeLoadBalancers", "filterGeneric"),
       Desc("aws_vpc_endpoint", <<"VpcEndpoints">>, "VpcEndpointId",
            "EC2conn.DescribeVpcEndpoints", "filterGeneric"),
       Desc("aws_nat_gateway", <<"NatGateways">>, "NatGatewayId",
            "EC2conn.DescribeNatGateways", "filterGeneric"),
       Desc("aws_cloudformation_stack", <<"Stacks">>, "StackId",
            "CFconn.DescribeStacks", "filterGeneric"),
       Desc("aws_route53_zone", <<"HostedZones">>, "Id",
            "R53conn.ListHostedZones", "filterGeneric"),
       Desc("aws_efs_file_system", <<"FileSystems">>, "FileSystemId",
            "EFSconn.DescribeFileSystems", "filterEfsFileSystem"),
       Desc("aws_network_interface", <<"NetworkInterfaces">>, "NetworkInterfaceId",
            "EC2conn.DescribeNetworkInterfaces", "filterGeneric"),
       Desc("aws_eip", <<"Addresses">>, "AllocationId",
            "EC2conn.DescribeAddresses", "filterGeneric"),
       Desc("aws_internet_gateway", <<"InternetGateways">>, "InternetGatewayId",
            "EC2conn.DescribeInternetGateways", "filterGeneric"),
       Desc("aws_subnet", <<"Subnets">>, "SubnetId",
            "EC2conn.DescribeSubnets", "filterGeneric"),
       Desc("aws_route_table", <<"RouteTables">>, "RouteTableId",
            "EC2conn.DescribeRouteTables", "filterGeneric"),
       Desc("aws_security_group", <<"SecurityGroups">>, "GroupId",
            "EC2conn.DescribeSecurityGroups", "filterGeneric"),
       Desc("aws_network_acl", <<"NetworkAcls">>, "NetworkAclId",
            "EC2conn.DescribeNetworkAcls", "filterGeneric"),
       Desc("aws_vpc", <<"Vpcs">>, "VpcId",
            "EC2conn.DescribeVpcs", "filterGeneric"),
       Desc("aws_iam_policy", <<"Policies">>, "Arn",
            "IAMconn.ListPolicies", "filterIamPolicy"),
       Desc("aws_iam_group", <<"Groups">>, "GroupName",
            "IAMconn.ListGroups", "filterGeneric"),
       Desc("aws_iam_user", <<"Users">>, "UserName",
            "IAMconn.ListUsers", "filterIamUser"),
       Desc("aws_iam_role", <<"Roles">>, "RoleName",
            "IAMconn.ListRoles", "filterGeneric"),
       Desc("aws_iam_instance_profile", <<"InstanceProfiles">>, "InstanceProfileName",
            "IAMconn.ListInstanceProfiles", "filterGeneric"),
       Desc("aws_kms_alias", <<"Aliases">>, "AliasName",
            "KMSconn.ListAliases", "filterGeneric"),
       Desc("aws_kms_key", <<"Keys">>, "KeyId",
            "KMSconn.ListKeys", "filterKmsKeys"),
       Desc("aws_s3_bucket", <<"Buckets">>, "Name",
            "S3conn.ListBuckets", "filterGeneric"),
       Desc("aws_ebs_snapshot", <<"Snapshots">>, "SnapshotId",
            "EC2conn.DescribeSnapshots", "filterGeneric"),
       Desc("aws_ebs_volume", <<"Volumes">>, "VolumeId",
            "EC2conn.DescribeVolumes", "filterGeneric"),
       Desc("aws_ami", <<"Images">>, "ImageId",
            "EC2conn.DescribeImages", "filterGeneric") >>

\* the zero value APIDesc{}
ZeroDesc == Desc("", <<>>, "", "", "")

\* getSupported that reports no error for a type the list lacks
getSupportedNoError(resType) ==
    LET hits == {i \in 1..Len(Supported) : Supported[i].TerraformType = resType}
    IN  IF hits = {}
        THEN [desc |-> ZeroDesc, err |-> FALSE]
        ELSE [desc |-> Supported[MinOf(hits)], err |-> FALSE]

\* getSupported: the first descriptor of the list with the given type
getSupported(resType) ==
    LET hits == {i \in 1..Len(Supported) : Supported[i].TerraformType = resType}
    IN  IF hits = {}
        THEN [desc |-> ZeroDesc, err |-> TRUE]
        ELSE [desc |-> Supported[MinOf(hits)], err |-> FALSE]

\* SupportedResourceType of the list variant: the type is a registry kind
SupportedResourceType(resType) ==
    \E i \in 1..Len(Supported) : Supported[i].TerraformType = resType

----------------------------------------------------------------------------
(* The map variant: src/resource/filter.go                                 *)

\* the zero value configEntry{}, also what a map lookup of a missing key yields
ZeroEntry == [Ids |-> <<>>, Tags |-> EmptyMap]

\* cfgEntry, _ := f.cfg[resource.Type]
Lookup(c, resType) == IF resType \in DOMAIN c THEN c[resType] ELSE ZeroEntry

\* resource.Tags read as a map: a nil map has no keys
TagsOf(resource) == IF resource.Tags = Nil THEN EmptyMap ELSE resource.Tags[1]

\* what a call yields: it either terminates the process (log.Fatal) or returns
Returns(ret, err) == [fatal |-> FALSE, ret |-> ret, err |-> err]

Fatal == [fatal |-> TRUE, ret |-> FALSE, err |-> TRUE]

\* ResourceTypes: the keys of the config in the order the range visits them
ResourceTypes(c, order) == order

\* Validate whose isTerraformType flag is not reset for each resource type
ValidateStickyFlag(c, order) ==
    LET resTypes == ResourceTypes(c, order)
        bad == {i \in 1..Len(resTypes) :
                   ~ \E k \in 1..i : \E j \in 1..Len(Supported) :
                        resTypes[k] = Supported[j].TerraformType}
    IN  IF bad = {}
        THEN [err |-> FALSE, resType |-> ""]
        ELSE [err |-> TRUE, resType |-> resTypes[MinOf(bad)]]

\* Validate: the first type of ResourceTypes that no descriptor of Supported carries
Validate(c, order) ==
    LET resTypes == ResourceTypes(c, order)
        bad == {i \in 1..Len(resTypes) :
                   ~ \E j \in 1..Len(Supported) : resTypes[i] = Supported[j].TerraformType}
    IN  IF bad = {}
        THEN [err |-> FALSE, resType |-> ""]
        ELSE [err |-> TRUE, resType |-> resTypes[MinOf(bad)]]

\* the loop of matchID leaving at the first pattern, matching or not
matchIDFirstOnly(ids, id, i) ==
    IF i > Len(ids) THEN Returns(FALSE, FALSE)
    ELSE LET m == MatchString(ids[i], id)
         IN  IF m.ok
             THEN (IF m.err THEN Fatal ELSE Returns(TRUE, FALSE))
             ELSE Returns(FALSE, FALSE)

RECURSIVE matchIDFrom(_, _, _)

\* the loop of matchID over cfgEntry.Ids, from index i on
matchIDFrom(ids, id, i) ==
    IF i > Len(ids) THEN Returns(FALSE, FALSE)
    ELSE LET m == MatchString(ids[i], id)
         IN  IF m.ok
             THEN (IF m.err THEN Fatal ELSE Returns(TRUE, FALSE))
             ELSE matchIDFrom(ids, id, i + 1)

matchID(c, resource) ==
    LET cfgEntry == Lookup(c, resource.Type)
    IN  IF Len(cfgEntry.Ids) = 0
        THEN Returns(FALSE, TRUE)
        ELSE matchIDFrom(cfgEntry.Ids, resource.ID, 1)

\* the loop of matchTags comparing the regex with the value of every resource tag
matchTagsAnyKey(cfgTags, tags, order, i) ==
    Returns(\E n \in i..Len(order) : \E k \in DOMAIN tags :
                MatchString(cfgTags[order[n]], tags[k]).ok, FALSE)

RECURSIVE matchTagsFrom(_, _, _, _)

\* the loop of matchTags over cfgEntry.Tags, visited in the given order, from index i on
matchTagsFrom(cfgTags, tags, order, i) ==
    IF i > Len(order) THEN Returns(FALSE, FALSE)
    ELSE LET cfgTagKey == order[i]
         IN  IF cfgTagKey \in DOMAIN tags
             THEN LET m == MatchString(cfgTags[cfgTagKey], tags[cfgTagKey])
                  IN  IF m.ok
                      THEN (IF m.err THEN Fatal ELSE Returns(TRUE, FALSE))
                      ELSE matchTagsFrom(cfgTags, tags, order, i + 1)
             ELSE matchTagsFrom(cfgTags, tags, order, i + 1)

matchTags(c, resource, order) ==
    LET cfgEntry == Lookup(c, resource.Type)
    IN  IF Cardinality(DOMAIN cfgEntry.Tags) = 0
        THEN Returns(FALSE, TRUE)
        ELSE matchTagsFrom(cfgEntry.Tags, TagsOf(resource), order, 1)

\* Matches requiring the id filter and the tag filter to both match
MatchesConjunction(c, resource, order) ==
    LET t == IF resource.Tags # Nil
             THEN matchTags(c, resource, order)
             ELSE Returns(FALSE, FALSE)
    IN  IF t.fatal THEN Fatal
        ELSE LET i == matchID(c, resource)
             IN  IF i.fatal THEN Fatal
                 ELSE IF i.err /\ t.err THEN Returns(TRUE, FALSE)
                 ELSE Returns(i.ret /\ t.ret, FALSE)

\* Matches selecting everything as soon as one of the two criteria is absent
MatchesEitherAbsent(c, resource, order) ==
    LET t == IF resource.Tags # Nil
             THEN matchTags(c, resource, order)
             ELSE Returns(FALSE, FALSE)
    IN  IF t.fatal THEN Fatal
        ELSE LET i == matchID(c, resource)
             IN  IF i.fatal THEN Fatal
                 ELSE IF i.err \/ t.err THEN Returns(TRUE, FALSE)
                 ELSE Returns(i.ret \/ t.ret, FALSE)

Matches(c, resource, order) ==
    LET t == IF resource.Tags # Nil
             THEN matchTags(c, resource, order)
             ELSE Returns(FALSE, FALSE)
    IN  IF t.fatal THEN Fatal
        ELSE LET i == matchID(c, resource)
             IN  IF i.fatal THEN Fatal
                 ELSE IF i.err /\ t.err THEN Returns(TRUE, FALSE)
                 ELSE Returns(i.ret \/ t.ret, FALSE)

----------------------------------------------------------------------------
(* The list variant: src/Makefile, lines 41..205                           *)

\* rtf.Tags read as a map: a nil map has no keys
RtfTags(rtf) == IF rtf.Tags = Nil THEN EmptyMap ELSE rtf.Tags[1]

\* ResourceTypeFilter.matchID
rtfMatchID(rtf, id) ==
    IF rtf.ID = Nil THEN Returns(TRUE, FALSE)
    ELSE LET m == MatchString(rtf.ID[1], id)
         IN  IF m.ok
             THEN (IF m.err THEN Fatal ELSE Returns(TRUE, FALSE))
             ELSE Returns(FALSE, FALSE)

\* the loop of ResourceTypeFilter.matchTags satisfied by one matching tag, as in the map variant
rtfMatchTagsAnyKey(cfgTags, tags, order, i) ==
    Returns(\E n \in i..Len(order) :
                /\ order[n] \in DOMAIN tags
                /\ MatchString(cfgTags[order[n]], tags[order[n]]).ok, FALSE)

RECURSIVE rtfMatchTagsFrom(_, _, _, _)

\* the loop of ResourceTypeFilter.matchTags, visiting rtf.Tags in the given order
rtfMatchTagsFrom(cfgTags, tags, order, i) ==
    IF i > Len(order) THEN Returns(TRUE, FALSE)
    ELSE LET cfgTagKey == order[i]
         IN  IF cfgTagKey \in DOMAIN tags
             THEN LET m == MatchString(cfgTags[cfgTagKey], tags[cfgTagKey])
                  IN  IF ~m.ok
                      THEN (IF m.err THEN Fatal ELSE Returns(FALSE, FALSE))
                      ELSE rtfMatchTagsFrom(cfgTags, tags, order, i + 1)
             ELSE Returns(FALSE, FALSE)

\* ResourceTypeFilter.matchTags
rtfMatchTags(rtf, tags, order) ==
    IF rtf.Tags = Nil THEN Returns(TRUE, FALSE)
    ELSE rtfMatchTagsFrom(rtf.Tags[1], tags, order, 1)

\* time.Time.Unix: the whole seconds since the epoch, the fraction dropped
Unix(t) == t \div TicksPerSecond

\* ResourceTypeFilter.matchCreated
matchCreated(rtf, creationTime) ==
    IF rtf.Created = Nil THEN TRUE
    ELSE IF creationTime = Nil THEN FALSE
    ELSE LET created == rtf.Created[1]
             createdAfter == IF created.After # Nil
                             THEN Unix(creationTime[1]) > Unix(created.After[1])
                             ELSE TRUE
             createdBefore == IF created.Before # Nil
                              THEN Unix(creationTime[1]) < Unix(created.Before[1])
                              ELSE TRUE
         IN  createdAfter /\ createdBefore

RECURSIVE matchesFrom(_, _, _, _)

\* the loop of Filter.matches over the entries of the resource's type;
\* orders[i] is the order in which entry i visits its tag map
matchesFrom(resTypeFilters, r, orders, i) ==
    IF i > Len(resTypeFilters) THEN Returns(FALSE, FALSE)
    ELSE LET rtf == resTypeFilters[i]
             t == rtfMatchTags(rtf, TagsOf(r), orders[i])
         IN  IF t.fatal THEN Fatal
             ELSE IF ~t.ret THEN matchesFrom(resTypeFilters, r, orders, i + 1)
             ELSE LET d == rtfMatchID(rtf, r.ID)
                  IN  IF d.fatal THEN Fatal
                      ELSE IF d.ret /\ matchCreated(rtf, r.Created)
                           THEN Returns(TRUE, FALSE)
                           ELSE matchesFrom(resTypeFilters, r, orders, i + 1)

\* Filter.matches
matches(c, r, orders) ==
    IF r.Type \notin DOMAIN c THEN Returns(FALSE, FALSE)
    ELSE IF Len(c[r.Type]) = 0 THEN Returns(TRUE, FALSE)
    ELSE matchesFrom(c[r.Type], r, orders, 1)

\* Filter.Validate of the list variant: the first type of Types that is not supported
ValidateList(c, order) ==
    LET bad == {i \in 1..Len(order) : ~SupportedResourceType(order[i])}
    IN  IF bad = {}
        THEN [err |-> FALSE, resType |-> ""]
        ELSE [err |-> TRUE, resType |-> order[MinOf(bad)]]

----------------------------------------------------------------------------
(* Inputs *)

\* the resource type whose filter criteria vary
MainKind == "aws_vpc"

\* a second supported resource type
OtherKind == "aws_instance"

\* a resource type that Supported does not list
UnsupportedKind == "not_supported_type"

IdPatterns == {PatFooPrefix, PatFooSuffix, PatBad}

TagPatterns == {PatBar, PatBad}

CfgTagKeys == {"foo", "bla"}

ResTagKeys == {"foo", "bla"}

TagValues == {Bar, Baz}

ResourceIDs == {FooLala, LalaFoo, SomeId}

\* resource tags: nil, empty or non-empty
ResourceTags == {Nil} \cup {Some(m) : m \in AllMaps(ResTagKeys, TagValues)}

\* FilterableResource values handed to the map variant
ResourcesMap == [Type : {MainKind, OtherKind}, ID : ResourceIDs, Tags : ResourceTags]

\* configEntry values of the main kind
EntriesMap == [Ids : SeqsUpTo(IdPatterns, MaxIds), Tags : AllMaps(CfgTagKeys, TagPatterns)]

\* Config values of the map variant
ConfigsMap ==
    UNION { { [k \in S |-> IF k = MainKind THEN e ELSE ZeroEntry] :
                e \in IF MainKind \in S THEN EntriesMap ELSE {ZeroEntry} } :
            S \in SUBSET {MainKind, OtherKind, UnsupportedKind} }

\* creation times handed to matchCreated, in ticks: on, just after and well
\* after the After bound, just before, on and after the Before bound
CreationTimes == {2, 3, 4, 6, 7, 8}

\* the Created ranges of a ResourceTypeFilter: After at tick 2, Before at tick 7, each optional
CreatedRanges ==
    {Some([After |-> a, Before |-> b]) : a \in {Nil, Some(2)}, b \in {Nil, Some(7)}}

\* Resource values handed to the list variant
ResourcesList ==
    [Type : {MainKind, OtherKind}, ID : {FooLala, LalaFoo},
     Tags : {Nil, Some([k \in {"foo"} |-> Bar]), Some([k \in {"foo", "bla"} |-> Bar])},
     Created : {Nil, Some(2), Some(4)}]

\* ResourceTypeFilter values
EntriesList ==
    [ID : {Nil, Some(PatFooPrefix), Some(PatBad)},
     Tags : {Nil, Some([k \in {"foo", "bla"} |-> PatBar]),
             Some([k \in {"foo", "bla"} |-> IF k = "foo" THEN PatBad ELSE PatBar])},
     Created : {Nil, Some([After |-> Some(2), Before |-> Nil])}]

\* lists of one ResourceTypeFilter that selects by creation time alone
CreatedLists == {<<[ID |-> Nil, Tags |-> Nil, Created |-> c]>> : c \in CreatedRanges}

\* Config values of the list variant
ConfigsList ==
    UNION { { [k \in S |-> IF k = MainKind THEN l ELSE <<>>] :
                l \in IF MainKind \in S
                      THEN SeqsUpTo(EntriesList, MaxEntries) \cup CreatedLists
                      ELSE {<<>>} } :
            S \in SUBSET {MainKind, UnsupportedKind} }

\* the yaml files NewFilter may be given
Files(v) ==
    {[status |-> "missing", doc |-> EmptyMap], [status |-> "malformed", doc |-> EmptyMap]}
    \cup {[status |-> "ok", doc |-> c] : c \in IF v = "map" THEN ConfigsMap ELSE ConfigsList}

\* the resource types looked up in the registry
LookupTypes == {Supported[i].TerraformType : i \in 1..Len(Supported)} \cup {UnsupportedKind}

\* one visiting order of its tag map for every entry of a list
OrdersOf(resTypeFilters) ==
    {os \in [1..Len(resTypeFilters) -> UNION {Orders(S) : S \in SUBSET CfgTagKeys}] :
        \A i \in 1..Len(resTypeFilters) : os[i] \in Orders(DOMAIN RtfTags(resTypeFilters[i]))}

----------------------------------------------------------------------------
(* The state machine *)

Init ==
    /\ variant \in {"map", "list"}
    /\ file \in Files(variant)
    /\ pc = "read"
    /\ cfg = EmptyMap
    /\ steps = <<>>
    /\ last = [op |-> "none"]

\* read: afero.ReadFile, log.Fatal when the file cannot be read
ReadFile ==
    /\ pc = "read"
    /\ steps' = Append(steps, "read")
    /\ pc' = IF file.status = "missing" THEN "fatal" ELSE "parse"
    /\ UNCHANGED <<variant, file, cfg, last>>

\* read: yaml.Unmarshal, log.Fatal when the document is malformed; the list
\* variant's NewFilter returns here, the map variant's goes on to Validate
Unmarshal ==
    /\ pc = "parse"
    /\ steps' = Append(steps, "parse")
    /\ IF file.status = "malformed"
       THEN pc' = "fatal" /\ cfg' = cfg
       ELSE /\ cfg' = file.doc
            /\ pc' = IF variant = "map" THEN "validate" ELSE "ready"
    /\ UNCHANGED <<variant, file, last>>

\* NewFilter that returns the filter although Validate reported an error
NewFilterValidateNoFatal ==
    /\ pc = "validate"
    /\ variant = "map"
    /\ steps' = Append(steps, "validate")
    /\ \E stsOK \in BOOLEAN, order \in Orders(DOMAIN cfg) :
          IF ~stsOK
          THEN pc' = "fatal" /\ last' = last
          ELSE LET v == Validate(cfg, order)
               IN  /\ last' = [op |-> "Validate", err |-> v.err, resType |-> v.resType]
                   /\ pc' = "returned"
    /\ UNCHANGED <<variant, file, cfg>>

\* NewFilter of the map variant: filter.Validate(c), log.Fatal on its error;
\* Supported asks STS for the account id and terminates when that call fails
NewFilterValidate ==
    /\ pc = "validate"
    /\ variant = "map"
    /\ steps' = Append(steps, "validate")
    /\ \E stsOK \in BOOLEAN, order \in Orders(DOMAIN cfg) :
          IF ~stsOK
          THEN pc' = "fatal" /\ last' = last
          ELSE LET v == Validate(cfg, order)
               IN  /\ last' = [op |-> "Validate", err |-> v.err, resType |-> v.resType]
                   /\ pc' = IF v.err THEN "fatal" ELSE "returned"
    /\ UNCHANGED <<variant, file, cfg>>

\* a call of Filter.Matches on the filter NewFilter returned
CallMatches ==
    /\ pc = "ready"
    /\ variant = "map"
    /\ \E r \in ResourcesMap :
         \E order \in Orders(DOMAIN Lookup(cfg, r.Type).Tags) :
            LET m == Matches(cfg, r, order)
            IN  /\ last' = [op |-> "Matches", resource |-> r, fatal |-> m.fatal, ret |-> m.ret]
                /\ pc' = IF m.fatal THEN "fatal" ELSE "returned"
    /\ UNCHANGED <<variant, file, cfg, steps>>

\* a call of Filter.matchID
CallMatchID ==
    /\ pc = "ready"
    /\ variant = "map"
    /\ \E r \in ResourcesMap :
          LET m == matchID(cfg, r)
          IN  /\ last' = [op |-> "matchID", resource |-> r, fatal |-> m.fatal,
                          ret |-> m.ret, err |-> m.err]
              /\ pc' = IF m.fatal THEN "fatal" ELSE "returned"
    /\ UNCHANGED <<variant, file, cfg, steps>>

\* a call of Filter.matchTags
CallMatchTags ==
    /\ pc = "ready"
    /\ variant = "map"
    /\ \E r \in ResourcesMap :
         \E order \in Orders(DOMAIN Lookup(cfg, r.Type).Tags) :
            LET m == matchTags(cfg, r, order)
            IN  /\ last' = [op |-> "matchTags", resource |-> r, fatal |-> m.fatal,
                            ret |-> m.ret, err |-> m.err]
                /\ pc' = IF m.fatal THEN "fatal" ELSE "returned"
    /\ UNCHANGED <<variant, file, cfg, steps>>

\* a call of getSupported; Supported terminates the process when STS fails
CallGetSupported ==
    /\ pc = "ready"
    /\ variant = "map"
    /\ \E resType \in LookupTypes, stsOK \in BOOLEAN :
          IF ~stsOK
          THEN pc' = "fatal" /\ last' = last
          ELSE LET g == getSupported(resType)
               IN  /\ last' = [op |-> "getSupported", resType |-> resType,
                               desc |-> g.desc, err |-> g.err]
                   /\ pc' = "returned"
    /\ UNCHANGED <<variant, file, cfg, steps>>

\* a call of Filter.Validate of the list variant, which NewFilter leaves to its caller
CallValidateList ==
    /\ pc = "ready"
    /\ variant = "list"
    /\ \E order \in Orders(DOMAIN cfg) :
          LET v == ValidateList(cfg, order)
          IN  last' = [op |-> "Validate", err |-> v.err, resType |-> v.resType]
    /\ pc' = "returned"
    /\ UNCHANGED <<variant, file, cfg, steps>>

\* a call of Filter.matches of the list variant
CallMatchesList ==
    /\ pc = "ready"
    /\ variant = "list"
    /\ \E r \in ResourcesList :
         \E orders \in OrdersOf(IF r.Type \in DOMAIN cfg THEN cfg[r.Type] ELSE <<>>) :
            LET m == matches(cfg, r, orders)
            IN  /\ last' = [op |-> "matches", resource |-> r, fatal |-> m.fatal, ret |-> m.ret]
                /\ pc' = IF m.fatal THEN "fatal" ELSE "returned"
    /\ UNCHANGED <<variant, file, cfg, steps>>

\* a call of matchCreated on an entry of the configuration
CallMatchCreated ==
    /\ pc = "ready"
    /\ variant = "list"
    /\ \E resType \in DOMAIN cfg :
         \E i \in 1..Len(cfg[resType]) :
            \E creationTime \in {Nil} \cup {Some(t) : t \in CreationTimes} :
               last' = [op |-> "matchCreated", rtf |-> cfg[resType][i],
                        creationTime |-> creationTime,
                        ret |-> matchCreated(cfg[resType][i], creationTime)]
    /\ pc' = "returned"
    /\ UNCHANGED <<variant, file, cfg, steps>>

\* the caller has used the result of the last call and goes on
Resume ==
    /\ pc = "returned"
    /\ pc' = "ready"
    /\ last' = [op |-> "none"]
    /\ UNCHANGED <<variant, file, cfg, steps>>

Next ==
    \/ ReadFile
    \/ Unmarshal
    \/ NewFilterValidate
    \/ CallMatches
    \/ CallMatchID
    \/ CallMatchTags
    \/ CallGetSupported
    \/ CallValidateList
    \/ CallMatchesList
    \/ CallMatchCreated
    \/ Resume

Spec == Init /\ [][Next]_vars

----------------------------------------------------------------------------
(* Claims *)

\* the configEntry the last call looked up
LastEntry == Lookup(cfg, last.resource.Type)

\* the registry carries the resource type
InRegistry(resType) == \E i \in 1..Len(Supported) : Supported[i].TerraformType = resType

\* NewFilter has returned a filter
NewFilterReturned == pc \in {"ready", "returned"}

\* C1: a resource whose kind is not a key of the configuration is never
\* selected, whatever its id and whether its tags are nil, empty or non-empty.
C1_AbsentKindNeverMatches ==
    (last.op \in {"Matches", "matches"} /\ last.resource.Type \notin DOMAIN cfg)
        => (~last.fatal /\ ~last.ret)

\* C2: a kind present in the configuration with neither id patterns nor tag
\* patterns selects every resource of that kind, also one with nil tags.
C2_NoCriteriaSelectsAll ==
    (/\ last.op = "Matches"
     /\ last.resource.Type \in DOMAIN cfg
     /\ Len(LastEntry.Ids) = 0
     /\ DOMAIN LastEntry.Tags = {})
        => (~last.fatal /\ last.ret)

\* C3: for a kind with both id patterns and tag patterns, Matches is true
\* exactly when matchID is true or matchTags is true.
C3_BothCriteriaDisjunction ==
    (/\ last.op = "Matches"
     /\ Len(LastEntry.Ids) > 0
     /\ DOMAIN LastEntry.Tags # {})
        => /\ ~last.fatal
           /\ \A order \in Orders(DOMAIN LastEntry.Tags) :
                 last.ret = (\/ matchID(cfg, last.resource).ret
                             \/ matchTags(cfg, last.resource, order).ret)

\* C3 witness: a resource selected by its tags although its id matches no pattern
C3_SelectedByTagOnly ==
    /\ last.op = "Matches"
    /\ Len(LastEntry.Ids) > 0
    /\ DOMAIN LastEntry.Tags # {}
    /\ last.ret
    /\ ~matchID(cfg, last.resource).ret

\* C4: with only id patterns configured the resource is selected iff its id
\* matches some pattern, whatever its tags; with only tag patterns configured
\* it is selected iff some configured tag key is present with a matching
\* value, whatever its id, and a resource with nil tags is not selected.
C4_SingleCriterion ==
    last.op = "Matches" =>
        LET e == LastEntry
            r == last.resource
            tags == TagsOf(r)
        IN  /\ (Len(e.Ids) > 0 /\ DOMAIN e.Tags = {})
                  => /\ ~last.fatal
                     /\ last.ret = (\E i \in 1..Len(e.Ids) : MatchString(e.Ids[i], r.ID).ok)
            /\ (Len(e.Ids) = 0 /\ DOMAIN e.Tags # {})
                  => /\ ~last.fatal
                     /\ last.ret = (\E k \in DOMAIN e.Tags \cap DOMAIN tags :
                                        MatchString(e.Tags[k], tags[k]).ok)
                     /\ (r.Tags = Nil => ~last.ret)

\* C4 witness: only id patterns configured, and a resource with nil tags is selected by its id
C4_IdOnlySelectedWithoutTags ==
    /\ last.op = "Matches"
    /\ Len(LastEntry.Ids) > 0
    /\ DOMAIN LastEntry.Tags = {}
    /\ last.resource.Tags = Nil
    /\ last.ret

\* C5: matchID returns (true, nil) iff some configured id pattern matches the
\* id, (false, nil) when there are patterns and none matches, and an error iff
\* no id pattern is configured.
C5_matchID ==
    last.op = "matchID" =>
        LET e == LastEntry
            hit == \E i \in 1..Len(e.Ids) : MatchString(e.Ids[i], last.resource.ID).ok
        IN  /\ ~last.fatal
            /\ last.err <=> (Len(e.Ids) = 0)
            /\ (last.ret /\ ~last.err) <=> hit
            /\ (Len(e.Ids) > 0 /\ ~hit) => (~last.ret /\ ~last.err)

\* C5 witness: the first pattern does not match, the second does, matchID returns true
C5_SecondPatternMatches ==
    /\ last.op = "matchID"
    /\ Len(LastEntry.Ids) = 2
    /\ ~MatchString(LastEntry.Ids[1], last.resource.ID).ok
    /\ last.ret
    /\ ~last.err

\* C6: matchTags returns (true, nil) iff some configured tag key is a key of
\* the resource's tags and the resource's value under that key matches the
\* regex, (false, nil) when there are tag patterns and no such key, and an
\* error iff no tag pattern is configured.
C6_matchTags ==
    last.op = "matchTags" =>
        LET e == LastEntry
            tags == TagsOf(last.resource)
            hit == \E k \in DOMAIN e.Tags \cap DOMAIN tags : MatchString(e.Tags[k], tags[k]).ok
        IN  /\ ~last.fatal
            /\ last.err <=> (DOMAIN e.Tags = {})
            /\ (last.ret /\ ~last.err) <=> hit
            /\ (DOMAIN e.Tags # {} /\ ~hit) => (~last.ret /\ ~last.err)

\* C6 witness: the value matches the regex of a key the resource does not carry
C6_ValueUnderOtherKey ==
    /\ last.op = "matchTags"
    /\ DOMAIN LastEntry.Tags = {"foo"}
    /\ LastEntry.Tags["foo"] = PatBar
    /\ DOMAIN TagsOf(last.resource) = {"bla"}
    /\ TagsOf(last.resource)["bla"] = Bar
    /\ ~last.ret
    /\ ~last.err

\* C7: Validate returns an error iff some key of the configuration is not the
\* TerraformType of a descriptor of Supported, and the type the error names
\* is such a key.
C7_Validate ==
    (variant = "map" /\ last.op = "Validate") =>
        /\ last.err <=> (\E k \in DOMAIN cfg : ~InRegistry(k))
        /\ last.err => (last.resType \in DOMAIN cfg /\ ~InRegistry(last.resType))

\* C7 witness: an unsupported kind next to a supported one is rejected
C7_UnsupportedAmongSupported ==
    /\ variant = "map"
    /\ last.op = "Validate"
    /\ last.err
    /\ MainKind \in DOMAIN cfg
    /\ last.resType = UnsupportedKind

\* C8: the TerraformTypes of Supported are pairwise different, getSupported of
\* a listed type returns without error the descriptor at that position, and
\* getSupported of an unlisted type returns an error.
C8_RegistryRoundTrip ==
    /\ \A i, j \in 1..Len(Supported) :
          i # j => Supported[i].TerraformType # Supported[j].TerraformType
    /\ last.op = "getSupported" =>
          /\ \A i \in 1..Len(Supported) :
                Supported[i].TerraformType = last.resType
                    => (~last.err /\ last.desc = Supported[i])
          /\ ~InRegistry(last.resType) => last.err

\* C8 witness: the lookup of the last listed type returned the last descriptor
C8_LookupLastDescriptor ==
    /\ last.op = "getSupported"
    /\ last.resType = "aws_ami"
    /\ ~last.err
    /\ last.desc = Supported[Len(Supported)]

\* C9: evaluating an id pattern or a tag-value pattern that is not a valid
\* regular expression terminates the process instead of returning a boolean.
C9_InvalidPatternIsFatal ==
    /\ (/\ last.op = "matchID"
        /\ Len(LastEntry.Ids) > 0
        /\ CompileError(LastEntry.Ids[1]))
          => last.fatal
    /\ (/\ last.op = "matchTags"
        /\ \E k \in DOMAIN TagsOf(last.resource) :
              DOMAIN LastEntry.Tags = {k} /\ CompileError(LastEntry.Tags[k]))
          => last.fatal

\* C10 as stated: NewFilter returns a filter only after read, parse and
\* validation, in that order, all succeeded.
C10_NewFilterValidates ==
    NewFilterReturned =>
        /\ steps = <<"read", "parse", "validate">>
        /\ file.status = "ok"
        /\ \A k \in DOMAIN cfg : InRegistry(k)

\* C10 amended: the steps of NewFilter are entered in the order read, parse,
\* validate. The map variant returns a filter only when all three succeeded,
\* so Matches, matchID and matchTags never run on a configuration with an
\* unsupported kind; the list variant returns after read and parse succeeded
\* and does not validate.
C10_NewFilterOrder ==
    /\ \E n \in 0..3 : steps = SubSeq(<<"read", "parse", "validate">>, 1, n)
    /\ (file.status # "ok" \/ (variant = "map" /\ \E k \in DOMAIN file.doc : ~InRegistry(k)))
          => ~NewFilterReturned
    /\ (variant = "map" /\ NewFilterReturned)
          => /\ steps = <<"read", "parse", "validate">>
             /\ file.status = "ok"
             /\ cfg = file.doc
             /\ \A k \in DOMAIN cfg : InRegistry(k)
    /\ (variant = "map" /\ last.op \in {"Matches", "matchID", "matchTags"})
          => \A k \in DOMAIN cfg : InRegistry(k)
    /\ (variant = "list" /\ NewFilterReturned)
          => /\ steps = <<"read", "parse">>
             /\ file.status = "ok"
             /\ cfg = file.doc

\* C10 witness: the map variant's NewFilter terminated the process on an unsupported kind
C10_TerminatedOnUnsupportedKind ==
    /\ variant = "map"
    /\ pc = "fatal"
    /\ steps = <<"read", "parse", "validate">>
    /\ last.op = "Validate"
    /\ last.err

\* C11: matchCreated is true for every resource when no range is configured,
\* false when a range is configured and the resource has no creation time,
\* and otherwise true iff the creation time is strictly after the After bound
\* (when set) and strictly before the Before bound (when set).
C11_matchCreatedStrict ==
    last.op = "matchCreated" =>
        last.ret = (IF last.rtf.Created = Nil THEN TRUE
                    ELSE IF last.creationTime = Nil THEN FALSE
                    ELSE LET created == last.rtf.Created[1]
                             t == last.creationTime[1]
                         IN  /\ (created.After # Nil => t > created.After[1])
                             /\ (created.Before # Nil => t < created.Before[1]))

\* the entries of the resource's type, none when the type is not a key
EntriesOf(c, r) == IF r.Type \in DOMAIN c THEN c[r.Type] ELSE <<>>

\* every configured tag key of the entry is a key of the tags with a matching
\* value; an unset tag map is satisfied
AllTagsMatch(rtf, tags) ==
    \A k \in DOMAIN RtfTags(rtf) :
        k \in DOMAIN tags /\ MatchString(RtfTags(rtf)[k], tags[k]).ok

\* the kind is a key and its list is empty or has an entry whose tags, id and
\* creation range are all satisfied
SomeEntrySelects(c, r) ==
    /\ r.Type \in DOMAIN c
    /\ \/ Len(c[r.Type]) = 0
       \/ \E i \in 1..Len(c[r.Type]) :
             LET e == c[r.Type][i]
             IN  /\ AllTagsMatch(e, TagsOf(r))
                 /\ rtfMatchID(e, r.ID).ret
                 /\ matchCreated(e, r.Created)

\* an entry holds a tag pattern that does not compile under a key the resource carries
BadTagPatternInReach(c, r) ==
    \E i \in 1..Len(EntriesOf(c, r)) :
        \E k \in DOMAIN RtfTags(EntriesOf(c, r)[i]) \cap DOMAIN TagsOf(r) :
            CompileError(RtfTags(EntriesOf(c, r)[i])[k])

\* C12 as stated: matches is true iff the kind is a key and its list is empty
\* or some entry satisfies matchTags, matchID and matchCreated together, and
\* the result does not depend on the order in which the tag maps are visited.
C12_matchesIffSomeEntry ==
    last.op = "matches" =>
        /\ ~last.fatal
        /\ last.ret = SomeEntrySelects(cfg, last.resource)
        /\ \A orders \in OrdersOf(EntriesOf(cfg, last.resource)) :
              LET alt == matches(cfg, last.resource, orders)
              IN  alt.fatal = last.fatal /\ alt.ret = last.ret

\* C12 amended: whenever matches returns, it returns true iff the kind is a
\* key and its list is empty or some entry satisfies matchTags, matchID and
\* matchCreated together, and every visiting order that returns gives the
\* same value. The call terminates the process only when an entry holds a tag
\* pattern that does not compile under a key the resource carries, and never
\* when no entry does.
C12_matchesWhenReturns ==
    last.op = "matches" =>
        /\ ~last.fatal => (last.ret = SomeEntrySelects(cfg, last.resource))
        /\ last.fatal => BadTagPatternInReach(cfg, last.resource)
        /\ \A orders \in OrdersOf(EntriesOf(cfg, last.resource)) :
              LET alt == matches(cfg, last.resource, orders)
              IN  /\ (~alt.fatal /\ ~last.fatal) => alt.ret = last.ret
                  /\ alt.fatal => BadTagPatternInReach(cfg, last.resource)

\* C12 witness: the first entry rejects the resource and the second, with id,
\* tags and creation range all set, selects it
C12_SecondEntrySelects ==
    /\ last.op = "matches"
    /\ ~last.fatal
    /\ last.ret
    /\ Len(EntriesOf(cfg, last.resource)) = 2
    /\ ~rtfMatchID(EntriesOf(cfg, last.resource)[1], last.resource.ID).ret
    /\ EntriesOf(cfg, last.resource)[2].ID # Nil
    /\ EntriesOf(cfg, last.resource)[2].Tags # Nil
    /\ EntriesOf(cfg, last.resource)[2].Created # Nil

====
